---------------------------- MODULE Spec2Model ----------------------------
(***************************************************************************)
(* SortBy derive (src/src/sort_by.rs): impl_sort_by_derive, parse_outer,   *)
(* parse_fields, and the meaning of the implementations it emits.          *)
(*                                                                         *)
(* One behaviour is one invocation of impl_sort_by_derive on one type      *)
(* description (DeriveInput).  The type description is fixed by Init; the  *)
(* actions are the steps of the function body, in program order.           *)
(***************************************************************************)
EXTENDS Integers, Sequences, FiniteSets, TLC

\* Bounds of the model.
MaxItems == 2       \* items written in the type-level attachments of one type
MaxAttrs == 2       \* attributes attached to one type
MaxFields == 2      \* fields declared by one type
MaxVal == 1         \* member values of an instance range over 0..MaxVal

(***************************************************************************)
(* Written syntax.  An item is what stands between two commas of a         *)
(* type-level attachment.                                                  *)
(***************************************************************************)
Word(n) == [w |-> "word", n |-> n]                               \* b
ColonPath == [w |-> "colons", segs |-> <<"a", "b">>]             \* a::b
Dotted == [w |-> "dotted", segs |-> <<"something", "do_this">>, call |-> TRUE]
                                                                 \* something.do_this()
Call0(n) == [w |-> "call", n |-> n, args |-> 0]                  \* product()
CallN(n) == [w |-> "call", n |-> n, args |-> 1]                  \* product(1)
IntLit == [w |-> "int"]                                          \* 1
BinOp(n) == [w |-> "binop", n |-> n]                             \* a + 1
Junk == [w |-> "junk"]                                           \* a b
EmbedText == [w |-> "dotted", segs |-> <<"embed", "otherfield">>, call |-> FALSE]
                                                                 \* embed.otherfield
Str(text) == [w |-> "str", text |-> text]                        \* "..."

\* The reserved identifier of the documentation (lib.rs).
MarkerToken == "_fields"

\* Items of the examples and tests: a member, a zero-argument call, the
\* reserved identifier.
BasicItems == {Word("b"), Call0("product"), Word(MarkerToken)}

\* Every kind of item the parser distinguishes.
RichItems ==
    BasicItems \cup
    {ColonPath, Dotted, CallN("product"), IntLit, BinOp("a"), Junk,
     Str(EmbedText), Str(BinOp("a")), Str(Junk)}

\* A type-level attribute: #[path(items)], #[path] or #[path = "..."].
ListAttr(p, its) == [path |-> p, form |-> "list", items |-> its]
WordAttr(p) == [path |-> p, form |-> "word", items |-> <<>>]
EqAttr(p) == [path |-> p, form |-> "eq", items |-> <<>>]

\* A field and the number of #[sort_by] attributes it carries: none, exactly
\* one, two or more (parse_fields looks at the first two only).
MarkCounts == {0, 1, 2}
FieldNames == <<"a", "c", "b", "embed">>
\* The members of a tuple struct are its positions.
Positions == <<"0", "1", "2", "3">>

RECURSIVE SeqsUpTo(_, _)
SeqsUpTo(S, n) ==
    IF n = 0 THEN {<<>>}
    ELSE LET shorter == SeqsUpTo(S, n - 1)
         IN shorter \cup {Append(s, x) : s \in {t \in shorter : Len(t) = n - 1}, x \in S}

RECURSIVE SumLen(_)
SumLen(atts) ==
    IF atts = <<>> THEN 0 ELSE Len(Head(atts).items) + SumLen(Tail(atts))

FieldLists(names) ==
    UNION {{[i \in 1..n |-> [ident |-> names[i], marks |-> m[i]]] :
                m \in [1..n -> MarkCounts]} : n \in 0..MaxFields}

\* Data of the DeriveInput: a struct with named fields, a tuple struct, a unit
\* struct, an enum (its fields are those of its variants) or a union.
AllData ==
    {[shape |-> s, fields |-> fs] : s \in {"named", "enum"}, fs \in FieldLists(FieldNames)}
    \cup {[shape |-> "unnamed", fields |-> fs] : fs \in FieldLists(Positions)}
    \cup {[shape |-> "unit", fields |-> <<>>], [shape |-> "union", fields |-> <<>>]}

BasicData ==
    {[shape |-> "enum", fields |-> <<>>],
     [shape |-> "named", fields |-> <<[ident |-> "a", marks |-> 1]>>],
     [shape |-> "named", fields |-> <<[ident |-> "a", marks |-> 2]>>]}

\* Attachments of the examples: list attachments under sort_by.
BasicAttrs == {ListAttr("sort_by", its) : its \in SeqsUpTo(BasicItems, MaxItems)}

BasicAttrLists ==
    {atts \in SeqsUpTo(BasicAttrs, MaxAttrs) : SumLen(atts) <= MaxItems}

\* One attachment in any form the parser distinguishes.
RichAttrs ==
    {ListAttr("sort_by", its) : its \in SeqsUpTo(RichItems, MaxItems)}
    \cup {WordAttr("sort_by"), EqAttr("sort_by")}

\* A foreign attribute, as #[accessor(global_time: usize)] of the tests.
Foreign == ListAttr("accessor", <<>>)

RichAttrLists ==
    {<<at>> : at \in RichAttrs} \cup {<<at, Foreign>> : at \in RichAttrs}
    \cup {<<Foreign, at>> : at \in RichAttrs}

(***************************************************************************)
(* syn: expressions and the parsers the derive calls.                      *)
(***************************************************************************)
EPath(segs) == [e |-> "path", segs |-> segs]
EMember(segs, call) == [e |-> "member", segs |-> segs, call |-> call]
ECall(n, args) == [e |-> "call", n |-> n, args |-> args]
ELit(v) == [e |-> "lit", v |-> v]
EBinary(n) == [e |-> "binary", n |-> n]
NoExpr == [e |-> "none"]

\* syn::parse2::<Expr> / LitStr::parse::<Expr> on the text of one item.
SynParseExpr(it) ==
    CASE it.w = "word" -> EPath(<<it.n>>)
      [] it.w = "colons" -> EPath(it.segs)
      [] it.w = "dotted" -> EMember(it.segs, it.call)
      [] it.w = "call" -> ECall(it.n, it.args)
      [] it.w = "int" -> ELit("int")
      [] it.w = "str" -> ELit("str")
      [] it.w = "binop" -> EBinary(it.n)
      [] OTHER -> NoExpr

\* NestedMeta::parse on one item: a path, a string literal, another literal,
\* a nested list; anything else does not parse.
NestedMetaOf(it) ==
    CASE it.w \in {"word", "colons"} -> "Path"
      [] it.w = "str" -> "LitStr"
      [] it.w = "int" -> "Lit"
      [] it.w = "call" -> "List"
      [] OTHER -> "none"

\* Attribute::parse_meta.
ParseMeta(attr) ==
    CASE attr.form = "word" -> "Path"
      [] attr.form = "eq" -> "NameValue"
      [] OTHER ->
           IF \A i \in 1..Len(attr.items) : NestedMetaOf(attr.items[i]) /= "none"
           THEN "List" ELSE "Err"

\* p.get_ident().to_token_stream() parsed as an expression: a path of one
\* segment gives its identifier, any other path gives no tokens.
IdentExpr(it) == IF it.w = "word" THEN EPath(<<it.n>>) ELSE NoExpr

\* l.parse() of a string literal: its contents parsed as an expression.
LitStrParse(it) == SynParseExpr(it.text)

Ok(v) == [r |-> "Ok", v |-> v]
Err == [r |-> "Err", v |-> <<>>]
Panic == [r |-> "Panic", v |-> <<>>]
Invalid == [r |-> "Invalid", v |-> <<>>]

\* The loop over list.nested of parse_outer, from item i on.
RECURSIVE PrimaryLoop(_, _, _)
PrimaryLoop(items, i, acc) ==
    IF i > Len(items) THEN Ok(acc)
    ELSE LET it == items[i]
             kind == NestedMetaOf(it)
         IN CASE kind = "Path" ->
                   IF IdentExpr(it) = NoExpr THEN Panic
                   ELSE PrimaryLoop(items, i + 1, Append(acc, IdentExpr(it)))
              [] kind = "LitStr" ->
                   IF LitStrParse(it) = NoExpr THEN Panic
                   ELSE PrimaryLoop(items, i + 1, Append(acc, LitStrParse(it)))
              [] OTHER -> Invalid

\* The elements of the fallback tuple, string literals re-parsed.
RECURSIVE TupleElems(_, _, _)
TupleElems(items, i, acc) ==
    IF i > Len(items) THEN Ok(acc)
    ELSE LET it == items[i]
         IN IF it.w = "str"
            THEN IF LitStrParse(it) = NoExpr THEN Panic
                 ELSE TupleElems(items, i + 1, Append(acc, LitStrParse(it)))
            ELSE TupleElems(items, i + 1, Append(acc, SynParseExpr(it)))

\* syn::parse2::<Expr>(attr.tokens) and the match on its result.
Fallback(attr) ==
    IF attr.form /= "list" THEN Err
    ELSE IF \E i \in 1..Len(attr.items) : SynParseExpr(attr.items[i]) = NoExpr THEN Err
    ELSE IF Len(attr.items) = 1 THEN Ok(<<SynParseExpr(attr.items[1])>>)
    ELSE TupleElems(attr.items, 1, <<>>)

parse_outer(attr) ==
    LET primary == IF ParseMeta(attr) = "List"
                   THEN PrimaryLoop(attr.items, 1, <<>>)
                   ELSE Invalid
    IN IF primary.r \in {"Ok", "Panic"} THEN primary ELSE Fallback(attr)

\* The loop over fields.named of parse_fields, from field i on.
FieldErr(i) == [r |-> "Err", v |-> <<>>, at |-> i]

RECURSIVE FieldLoop(_, _, _)
FieldLoop(fields, i, acc) ==
    IF i > Len(fields) THEN Ok(acc)
    ELSE IF fields[i].marks = 0 THEN FieldLoop(fields, i + 1, acc)
    ELSE IF fields[i].marks >= 2 THEN FieldErr(i)
    ELSE FieldLoop(fields, i + 1, Append(acc, EPath(<<fields[i].ident>>)))

parse_fields(fields) == FieldLoop(fields, 1, <<>>)

(***************************************************************************)
(* The code impl_sort_by_derive synthesizes, and what it means on two      *)
(* instances of the host type.                                             *)
(***************************************************************************)
\* core::cmp::Ord::cmp(&self.e, &other.e)
CmpCall(e) == [op |-> "cmp", sel |-> e]
\* prev.then_with(|| self.e.cmp(&other.e))
ThenWith(prev, e) == [op |-> "then_with", lhs |-> prev, sel |-> e]
\* self.e.hash(state)
HashCall(e) == [op |-> "hash", sel |-> e]

\* The fold nested from the wrong end: the last selector is compared second.
RECURSIVE FoldOrdReversed(_, _, _)
FoldOrdReversed(stmt, exprs, i) ==
    IF i > Len(exprs) THEN stmt
    ELSE ThenWith(FoldOrdReversed(stmt, exprs, i + 1), exprs[i])

\* iter_sort_expressions.fold(ord_statement, ...) over the selectors that
\* follow the first.
RECURSIVE FoldOrd(_, _, _)
FoldOrd(stmt, exprs, i) ==
    IF i > Len(exprs) THEN stmt
    ELSE FoldOrd(ThenWith(stmt, exprs[i]), exprs, i + 1)

\* The map run on the iterator the ordering already advanced: the first
\* selector is not hashed.
HashExprsRest(exprs) == [i \in 1..Len(exprs) - 1 |-> HashCall(exprs[i + 1])]

\* sortable_expressions.iter().map(...).collect()
HashExprs(exprs) == [i \in 1..Len(exprs) |-> HashCall(exprs[i])]

\* The bodies of the five emitted implementations.
EmittedImpls(ord, hashes) ==
    [Hash |-> hashes,
     Eq |-> "marker",
     PartialEq |-> "cmp_is_eq",
     PartialOrd |-> "some_cmp",
     Ord |-> ord]

NoImpls == <<>>

\* Instances of the host type: the members a, c, b of the examples.
Members == {"a", "c", "b"}
Vals == 0..MaxVal
Instances == [Members -> Vals]

\* self.e compiles on the host type: a member, or the method product() of
\* the documentation.
HostCompiles(e) ==
    \/ e.e = "path" /\ Len(e.segs) = 1 /\ e.segs[1] \in Members
    \/ e.e = "call" /\ e.n = "product" /\ e.args = 0

\* The value of self.e; product() is self.a * self.b as in the documentation.
EvalSel(e, x) ==
    IF e.e = "path" THEN x[e.segs[1]] ELSE x["a"] * x["b"]

\* Ord::cmp on the values of a member.
Compare(u, v) == IF u < v THEN "Less" ELSE IF u > v THEN "Greater" ELSE "Equal"

\* Ordering::then_with: the left result unless it is Equal.
RECURSIVE EvalOrd(_, _, _)
EvalOrd(stmt, x, y) ==
    IF stmt.op = "cmp" THEN Compare(EvalSel(stmt.sel, x), EvalSel(stmt.sel, y))
    ELSE LET left == EvalOrd(stmt.lhs, x, y)
         IN IF left = "Equal"
            THEN Compare(EvalSel(stmt.sel, x), EvalSel(stmt.sel, y))
            ELSE left

\* The emitted bodies, run.
RunCmp(code, x, y) == EvalOrd(code.Ord, x, y)
RunEq(code, x, y) == RunCmp(code, x, y) = "Equal"
RunPartialCmp(code, x, y) == <<"Some", RunCmp(code, x, y)>>
\* The values fed to the hasher, in the order they are fed.
RunHash(code, x) == [i \in 1..Len(code.Hash) |-> EvalSel(code.Hash[i].sel, x)]

(***************************************************************************)
(* impl_sort_by_derive, step by step.                                      *)
(***************************************************************************)
VARIABLES input, pc, idx, sortable_expressions, ord_statement, hash_expressions, result

vars == <<input, pc, idx, sortable_expressions, ord_statement, hash_expressions, result>>

HELP_SORTBY == "SortBy: invalid sort_by attribute, expected list form"
MSG_SHAPE == "SortBy: expected an enum or a struct with named fields"
MSG_EMPTY == "SortBy: no field to sort on"
MSG_DUP == "SortBy: expected at most one sort_by attribute"

InputSpan == [at |-> "input", i |-> 0]
AttrSpan(i) == [at |-> "attr", i |-> i]
FieldSpan(i) == [at |-> "field", i |-> i]

Running == [kind |-> "running", msg |-> "", span |-> InputSpan, code |-> NoImpls]
\* Error::new(span, msg).into_compile_error(): a diagnostic and nothing else.
CompileError(span, msg) == [kind |-> "error", msg |-> msg, span |-> span, code |-> NoImpls]
\* An unwrap() on an Err: the call unwinds, no token stream is returned.
Unwound == [kind |-> "panic", msg |-> "", span |-> InputSpan, code |-> NoImpls]
Tokens(code) == [kind |-> "tokens", msg |-> "", span |-> InputSpan, code |-> code]

\* The type descriptions the model runs on: several plain attachments on any
\* data, or one attachment of any form on plain data.
TypeDescriptions ==
    {[attrs |-> as, data |-> d] : as \in BasicAttrLists, d \in AllData}
    \cup {[attrs |-> as, data |-> d] : as \in RichAttrLists, d \in BasicData}

Init ==
    /\ input \in TypeDescriptions
    /\ pc = "attrs"
    /\ idx = 1
    /\ sortable_expressions = <<>>
    /\ ord_statement = NoExpr
    /\ hash_expressions = <<>>
    /\ result = Running

\* .filter(|i| i.path.get_ident().map(|i| i == "sort_by") == Some(true))
IsSortBy(attr) == attr.path = "sort_by"

Stop(res) ==
    /\ pc' = "done"
    /\ result' = res
    /\ UNCHANGED <<input, idx, sortable_expressions, ord_statement, hash_expressions>>

\* The filter passes over an attribute that is not sort_by.
AttrSkip ==
    /\ pc = "attrs" /\ idx <= Len(input.attrs)
    /\ ~IsSortBy(input.attrs[idx])
    /\ idx' = idx + 1
    /\ UNCHANGED <<input, pc, sortable_expressions, ord_statement, hash_expressions, result>>

\* The vector of an attachment assigned instead of appended.
AttrOkOverwrite ==
    /\ pc = "attrs" /\ idx <= Len(input.attrs)
    /\ IsSortBy(input.attrs[idx])
    /\ parse_outer(input.attrs[idx]).r = "Ok"
    /\ sortable_expressions' = parse_outer(input.attrs[idx]).v
    /\ idx' = idx + 1
    /\ UNCHANGED <<input, pc, ord_statement, hash_expressions, result>>

\* Ok(mut vec) => sortable_expressions.append(&mut vec)
AttrOk ==
    /\ pc = "attrs" /\ idx <= Len(input.attrs)
    /\ IsSortBy(input.attrs[idx])
    /\ parse_outer(input.attrs[idx]).r = "Ok"
    /\ sortable_expressions' = sortable_expressions \o parse_outer(input.attrs[idx]).v
    /\ idx' = idx + 1
    /\ UNCHANGED <<input, pc, ord_statement, hash_expressions, result>>

\* _ => return Error::new(attr.span(), HELP_SORTBY).into_compile_error()
AttrErr ==
    /\ pc = "attrs" /\ idx <= Len(input.attrs)
    /\ IsSortBy(input.attrs[idx])
    /\ parse_outer(input.attrs[idx]).r = "Err"
    /\ Stop(CompileError(AttrSpan(idx), HELP_SORTBY))

\* An unwrap() inside parse_outer fails.
AttrPanic ==
    /\ pc = "attrs" /\ idx <= Len(input.attrs)
    /\ IsSortBy(input.attrs[idx])
    /\ parse_outer(input.attrs[idx]).r = "Panic"
    /\ Stop(Unwound)

AttrsDone == pc = "attrs" /\ idx > Len(input.attrs)

\* Data::Struct with Fields::Named: Ok(mut result) => append
MatchNamedOk ==
    /\ AttrsDone
    /\ input.data.shape = "named"
    /\ parse_fields(input.data.fields).r = "Ok"
    /\ sortable_expressions' = sortable_expressions \o parse_fields(input.data.fields).v
    /\ pc' = "ord"
    /\ UNCHANGED <<input, idx, ord_statement, hash_expressions, result>>

\* Err(e) => return e.into_compile_error()
MatchNamedErr ==
    /\ AttrsDone
    /\ input.data.shape = "named"
    /\ parse_fields(input.data.fields).r = "Err"
    /\ Stop(CompileError(FieldSpan(parse_fields(input.data.fields).at), MSG_DUP))

\* Data::Enum(_) => ()
MatchEnum ==
    /\ AttrsDone
    /\ input.data.shape = "enum"
    /\ pc' = "ord"
    /\ UNCHANGED <<input, idx, sortable_expressions, ord_statement, hash_expressions, result>>

\* _ => return Error::new(input_span, ...).into_compile_error()
MatchOther ==
    /\ AttrsDone
    /\ input.data.shape \notin {"named", "enum"}
    /\ Stop(CompileError(InputSpan, MSG_SHAPE))

\* if let Some(sort_expression) = iter_sort_expressions.next()
OrdFirst ==
    /\ pc = "ord"
    /\ sortable_expressions /= <<>>
    /\ ord_statement' = CmpCall(sortable_expressions[1])
    /\ pc' = "fold"
    /\ UNCHANGED <<input, idx, sortable_expressions, hash_expressions, result>>

\* No selector: an ordering that is always Equal instead of the diagnostic.
OrdNoneAlwaysEqual ==
    /\ pc = "ord"
    /\ sortable_expressions = <<>>
    /\ ord_statement' = [op |-> "equal"]
    /\ pc' = "hash"
    /\ UNCHANGED <<input, idx, sortable_expressions, hash_expressions, result>>

\* else { return Error::new(input_span, ...).into_compile_error() }
OrdNone ==
    /\ pc = "ord"
    /\ sortable_expressions = <<>>
    /\ Stop(CompileError(InputSpan, MSG_EMPTY))

\* The fold left out: only the first selector is compared.
OrdFoldSkipped ==
    /\ pc = "fold"
    /\ pc' = "hash"
    /\ UNCHANGED <<input, idx, sortable_expressions, ord_statement, hash_expressions, result>>

\* let ord_statement = iter_sort_expressions.fold(ord_statement, ...)
OrdFold ==
    /\ pc = "fold"
    /\ ord_statement' = FoldOrd(ord_statement, sortable_expressions, 2)
    /\ pc' = "hash"
    /\ UNCHANGED <<input, idx, sortable_expressions, hash_expressions, result>>

\* let hash_expressions: Vec<Expr> = ...
HashMap ==
    /\ pc = "hash"
    /\ hash_expressions' = HashExprs(sortable_expressions)
    /\ pc' = "emit"
    /\ UNCHANGED <<input, idx, sortable_expressions, ord_statement, result>>

\* quote_spanned! {input_span => impl Hash ... impl Ord ...}
Emit ==
    /\ pc = "emit"
    /\ Stop(Tokens(EmittedImpls(ord_statement, hash_expressions)))

Next ==
    \/ AttrSkip \/ AttrOk \/ AttrErr \/ AttrPanic
    \/ MatchNamedOk \/ MatchNamedErr \/ MatchEnum \/ MatchOther
    \/ OrdFirst \/ OrdNone \/ OrdFold \/ HashMap \/ Emit

Spec == Init /\ [][Next]_vars

(***************************************************************************)
(* The type description as the specification reads it, independently of    *)
(* the parsers above.                                                      *)
(***************************************************************************)
\* An item that is written as a selector: a member, a dotted chain, a
\* zero-argument call, or a string literal holding one of these.
RECURSIVE WrittenSelector(_)
WrittenSelector(it) ==
    CASE it.w = "word" -> TRUE
      [] it.w = "dotted" -> TRUE
      [] it.w = "call" -> it.args = 0
      [] it.w = "str" -> WrittenSelector(it.text)
      [] OTHER -> FALSE

\* The selector such an item denotes.
RECURSIVE SelectorOf(_)
SelectorOf(it) ==
    CASE it.w = "word" -> [e |-> "path", segs |-> <<it.n>>]
      [] it.w = "dotted" -> [e |-> "member", segs |-> it.segs, call |-> it.call]
      [] it.w = "call" -> [e |-> "call", n |-> it.n, args |-> 0]
      [] OTHER -> SelectorOf(it.text)

\* An item that embeds a literal, a binary operator or a call with arguments.
RECURSIVE EmbedsNonSelector(_)
EmbedsNonSelector(it) ==
    CASE it.w = "int" -> TRUE
      [] it.w = "binop" -> TRUE
      [] it.w = "call" -> it.args > 0
      [] it.w = "str" -> it.text.w /= "junk" /\ EmbedsNonSelector(it.text)
      [] OTHER -> FALSE

\* A dotted chain of member names with an optional zero-argument call.
IsSelector(e) ==
    \/ e.e = "path" /\ Len(e.segs) = 1
    \/ e.e = "member"
    \/ e.e = "call" /\ e.args = 0

IsMarker(it) == it = Word(MarkerToken)

\* The sort_by attachments of the type, in attachment order.
SortByAttrs == SelectSeq(input.attrs, LAMBDA at : at.path = "sort_by")

RECURSIVE Flatten(_)
Flatten(atts) == IF atts = <<>> THEN <<>> ELSE Head(atts).items \o Flatten(Tail(atts))

\* The items of all type-level attachments, concatenated.
TypeItems == Flatten(SortByAttrs)

\* Every attachment is a list of written selectors.
WellFormedAttrs ==
    /\ \A i \in 1..Len(SortByAttrs) : SortByAttrs[i].form = "list"
    /\ \A j \in 1..Len(TypeItems) : WrittenSelector(TypeItems[j])

MarkerPresent == \E j \in 1..Len(TypeItems) : IsMarker(TypeItems[j])

TypeSelectors == [j \in 1..Len(TypeItems) |-> SelectorOf(TypeItems[j])]

\* The marked fields of a record in declaration order; a variant type has none.
MarkedFields ==
    IF input.data.shape \in {"named", "unnamed"}
    THEN LET marked == SelectSeq(input.data.fields, LAMBDA f : f.marks >= 1)
         IN [j \in 1..Len(marked) |-> [e |-> "path", segs |-> <<marked[j].ident>>]]
    ELSE <<>>

DoublyMarked == {i \in 1..Len(input.data.fields) : input.data.fields[i].marks >= 2}

Min(S) == CHOOSE m \in S : \A n \in S : m <= n

Range(s) == {s[i] : i \in 1..Len(s)}

\* The type-level list with the marker replaced, in place, by the fields.
RECURSIVE ReplaceMarker(_, _)
ReplaceMarker(items, fields) ==
    IF items = <<>> THEN <<>>
    ELSE (IF IsMarker(Head(items)) THEN fields ELSE <<SelectorOf(Head(items))>>)
         \o ReplaceMarker(Tail(items), fields)

\* The derive has resolved the selector sequence: the attachments are parsed
\* and the fields are scanned.
Resolved ==
    \/ pc \in {"ord", "fold", "hash", "emit"}
    \/ pc = "done" /\ result.kind = "tokens"

Generated == pc = "done" /\ result.kind = "tokens"

AllImpls == {"Hash", "Eq", "PartialEq", "PartialOrd", "Ord"}

\* The first selector on which two instances differ decides; Equal if none.
FirstUnequal(exprs, x, y) ==
    LET differ == {j \in 1..Len(exprs) : EvalSel(exprs[j], x) /= EvalSel(exprs[j], y)}
    IN IF differ = {} THEN "Equal"
       ELSE IF EvalSel(exprs[Min(differ)], x) < EvalSel(exprs[Min(differ)], y)
            THEN "Less" ELSE "Greater"

\* The selectors of an ordering chain, in the order they are compared.
RECURSIVE OrdSelectors(_)
OrdSelectors(stmt) ==
    IF stmt.op = "cmp" THEN <<stmt.sel>> ELSE Append(OrdSelectors(stmt.lhs), stmt.sel)

HashFeeds(code) == [j \in 1..Len(code.Hash) |-> code.Hash[j].sel]

Compiles == \A j \in 1..Len(sortable_expressions) : HostCompiles(sortable_expressions[j])

(***************************************************************************)
(* The claims.                                                             *)
(***************************************************************************)

\* C1: without the marker, the selector sequence the derive resolves is the
\* selectors of the type-level attachments (attachments in attachment order,
\* items in written order) followed by the marked fields in declaration
\* order; with no attachment it is the marked fields alone; an unmarked
\* field is never among the field selectors.
C1_ResolutionWithoutMarker ==
    (Resolved /\ WellFormedAttrs /\ ~MarkerPresent) =>
        /\ sortable_expressions = TypeSelectors \o MarkedFields
        /\ SortByAttrs = <<>> => sortable_expressions = MarkedFields
        /\ \A i \in 1..Len(input.data.fields) :
              (input.data.shape = "named" /\ input.data.fields[i].marks = 0) =>
                 \A j \in Len(TypeItems) + 1..Len(sortable_expressions) :
                    sortable_expressions[j] /= [e |-> "path", segs |-> <<input.data.fields[i].ident>>]

\* C1 witness: two attachments with one selector each and two marked fields
\* have been resolved and the implementations generated.
C1_Witness ==
    /\ Generated /\ WellFormedAttrs /\ ~MarkerPresent
    /\ Len(SortByAttrs) = 2
    /\ \A i \in 1..2 : Len(SortByAttrs[i].items) = 1
    /\ TypeItems[1] /= TypeItems[2]
    /\ Len(MarkedFields) = 2

\* C2: a type-level list holding the marker _fields resolves to that list
\* with the marker replaced, in place, by the marked fields, and the marker
\* is never emitted as a member access.
C2_InterleaveMarker ==
    (Resolved /\ WellFormedAttrs
       /\ Cardinality({j \in 1..Len(TypeItems) : IsMarker(TypeItems[j])}) = 1) =>
        /\ sortable_expressions = ReplaceMarker(TypeItems, MarkedFields)
        /\ [e |-> "path", segs |-> <<MarkerToken>>] \notin Range(sortable_expressions)

\* C3: the generated cmp is the comparison of the first selector of the
\* resolved sequence on which the two instances differ, and Equal when they
\* differ on none; later selectors and unselected members do not count.
C3_LexicographicShortCircuit ==
    (Generated /\ Compiles) =>
        \A x \in Instances, y \in Instances :
            RunCmp(result.code, x, y) = FirstUnequal(sortable_expressions, x, y)

\* C3 witness: a generated ordering over three selectors and two instances
\* equal on the first, Less on the second and Greater on the third.
C3_Witness ==
    /\ Generated /\ Compiles
    /\ Len(sortable_expressions) >= 3
    /\ \E x \in Instances, y \in Instances :
          /\ EvalSel(sortable_expressions[1], x) = EvalSel(sortable_expressions[1], y)
          /\ EvalSel(sortable_expressions[2], x) < EvalSel(sortable_expressions[2], y)
          /\ EvalSel(sortable_expressions[3], x) > EvalSel(sortable_expressions[3], y)
          /\ RunCmp(result.code, x, y) = "Less"

\* C4: the generated hash feeds the hasher once per selector of the resolved
\* sequence, the j-th update feeding the j-th selector, none skipped or
\* repeated; that is the order the ordering compares in, type-level
\* selectors first and marked fields after them.
C4_HashChain ==
    Generated =>
        /\ Len(result.code.Hash) = Len(sortable_expressions)
        /\ HashFeeds(result.code) = sortable_expressions
        /\ HashFeeds(result.code) = OrdSelectors(result.code.Ord)
        /\ (WellFormedAttrs /\ ~MarkerPresent) =>
              HashFeeds(result.code) = TypeSelectors \o MarkedFields
        /\ Compiles =>
              \A x \in Instances :
                 RunHash(result.code, x) =
                    [j \in 1..Len(sortable_expressions) |-> EvalSel(sortable_expressions[j], x)]

\* C4 witness: implementations generated from a type-level selector and two
\* marked fields.
C4_Witness ==
    /\ Generated /\ Compiles
    /\ Len(TypeItems) >= 1 /\ Len(MarkedFields) = 2
    /\ Len(result.code.Hash) = Len(TypeItems) + 2

C6_DuplicateMarkerIsError ==
    /\ (pc = "done" /\ input.data.shape \in {"named", "unnamed"}
          /\ WellFormedAttrs /\ DoublyMarked /= {}) =>
           result = CompileError(FieldSpan(Min(DoublyMarked)), MSG_DUP)
    /\ (pc = "done" /\ result.msg = MSG_DUP) =>
           result.span.at = "field" /\ result.span.i \in DoublyMarked

\* C7: the shape diagnostic is given only for types that are neither a
\* record with named or positional fields nor a variant type; a tuple struct
\* is accepted and its marked fields take part under their positions.
C7_ShapeCheck ==
    /\ (pc = "done" /\ result.msg = MSG_SHAPE) =>
           input.data.shape \notin {"named", "unnamed", "enum"}
    /\ (pc = "done" /\ input.data.shape = "unnamed" /\ WellFormedAttrs
          /\ ~MarkerPresent /\ DoublyMarked = {} /\ MarkedFields /= <<>>) =>
           /\ Generated
           /\ sortable_expressions = TypeSelectors \o MarkedFields

\* C8: every element of the sequence parse_outer returns is a dotted chain
\* of member names with an optional zero-argument call, and an attachment
\* with an item embedding a literal, a binary operator or a call with
\* arguments yields the grammar diagnostic at the attachment.
C8_SelectorShape ==
    /\ pc = "attrs" =>
          \A j \in 1..Len(sortable_expressions) : IsSelector(sortable_expressions[j])
    /\ \A i \in 1..Len(input.attrs) :
          (/\ input.attrs[i].path = "sort_by"
           /\ \E j \in 1..Len(input.attrs[i].items) : EmbedsNonSelector(input.attrs[i].items[j])
           /\ (idx > i \/ (pc = "done" /\ idx = i))) =>
             result = CompileError(AttrSpan(i), HELP_SORTBY)

\* C9: an invocation ends either with all five implementations and no
\* diagnostic, or with a diagnostic and no implementation; nothing in
\* between and nothing outside the diagnostic channel.
C9_AllOrNothing ==
    pc = "done" =>
        \/ /\ result.kind = "tokens"
           /\ DOMAIN result.code = AllImpls
           /\ result.msg = ""
        \/ /\ result.kind = "error"
           /\ result.code = NoImpls
           /\ result.msg /= ""

\* C10: in the generated implementations eq is true exactly when cmp is
\* Equal, partial_cmp is always Some of cmp, and instances that are eq feed
\* the hasher equal values in the same order.
C10_EqOrdHashConsistent ==
    (Generated /\ Compiles) =>
        LET compared == OrdSelectors(result.code.Ord)
        IN \A x \in Instances, y \in Instances :
              LET eq == RunEq(result.code, x, y)
                  ord == RunCmp(result.code, x, y)
              IN /\ eq <=> (ord = "Equal")
                 /\ eq <=> \A j \in 1..Len(compared) :
                              EvalSel(compared[j], x) = EvalSel(compared[j], y)
                 /\ RunPartialCmp(result.code, x, y) = <<"Some", ord>>
                 /\ eq => RunHash(result.code, x) = RunHash(result.code, y)

\* C10 witness: generated implementations over two selectors and two
\* different instances that are eq.
C10_Witness ==
    /\ Generated /\ Compiles
    /\ Len(sortable_expressions) >= 2
    /\ \E x \in Instances, y \in Instances :
          /\ x /= y
          /\ RunEq(result.code, x, y)
          /\ RunHash(result.code, x) = RunHash(result.code, y)

=============================================================================
